---- MODULE Spec2Model ----
(***************************************************************************)
(* Multi-Agent Discussion System: the agent registry (AgentStorage), the   *)
(* LLM dispatcher (generate_llm_response), the text cleaner                *)
(* (basic_clean_text) and the HTTP handlers that thread them together,     *)
(* in the configuration ENV != 'DUMMY' (the one in which the registry      *)
(* exists).                                                                *)
(*                                                                         *)
(*   Spec       the registry, its GET and PUT handlers, process restarts,  *)
(*              and file writes that fail;                                 *)
(*   SpecTurn   POST /next_turn and the dispatcher over the registries the *)
(*              registry calls build;                                      *)
(*   SpecClean  basic_clean_text applied to a text and to its own result;  *)
(*   SpecPrompt get_agent_system_prompt applied to a persona file, twice;  *)
(*   SpecRace   two registry calls on two threads, step by step.           *)
(***************************************************************************)
EXTENDS Integers, Sequences, FiniteSets, TLC

(***************************************************************************)
(* Bounds and input sets.                                                  *)
(***************************************************************************)
\* How many times a value may already be wrapped by to_dict when a process
\* (re)starts from the backing file.
MaxNest == 1

\* The longest text, in tokens, the cleaner is given.
MaxLen == 6

\* How many times in a row the cleaner is applied to its own result.
MaxPasses == 2

\* How deep lists and mappings nest under a top-level key of a persona file.
MaxDepth == 3

\* How many times the same persona file is rendered.
MaxRenders == 2

\* Agent ids the callers use (app.py names HONG and DRAGUNOV).
Ids == {"HONG", "DRAGUNOV"}

\* Python None / JSON null, as a model name.
None == "None"

GEMINI_API_MODELS == {"gemini-2.5-flash"}

HF_SERVERLESS_MODELS == {"deepseek-ai/DeepSeek-R1:sambanova", "zai-org/GLM-4.5"}

\* Model names the callers pass: one per allow-list and one on neither.
ModelNames == {"gemini-2.5-flash", "zai-org/GLM-4.5", "llama-unlisted"}

(***************************************************************************)
(* Values.  A model_name value is a string, None, or (after a reload of a  *)
(* file that _save_agents wrote) the dict {"agent_id": a, "model_name": v} *)
(* nested any number of times.  It is held as the sequence of the          *)
(* "agent_id" fields from the outermost dict inwards, and the innermost    *)
(* string: agent_ids = <<>> is the plain string base.                      *)
(***************************************************************************)
Str(s) == [agent_ids |-> <<>>, base |-> s]

IsStr(v) == v.agent_ids = <<>> /\ v.base # None

\* A faulty Agent: __init__ stores its two arguments crosswise.
Agent_Crosswise(agent_id, model_name) ==
    [agent_id |-> model_name.base, model_name |-> Str(agent_id)]

\* Agent.__init__: the two stored fields (the derived paths depend on
\* agent_id alone).
Agent(agent_id, model_name) == [agent_id |-> agent_id, model_name |-> model_name]

\* Agent.to_dict: {"agent_id": self.agent_id, "model_name": self.model_name}
to_dict(agent) ==
    [agent_ids |-> <<agent.agent_id>> \o agent.model_name.agent_ids,
     base |-> agent.model_name.base]

\* The value under "model_name" of a dict written by to_dict.
ModelNameField(v) == [agent_ids |-> Tail(v.agent_ids), base |-> v.base]

EmptyMap == [id \in {} |-> Str(None)]

NoAgents == [id \in {} |-> Agent("", Str(None))]

\* Contents of the backing file.
MissingFile == [kind |-> "missing", data |-> EmptyMap]

\* Not JSON: hand-damaged, or cut short by a write that failed half way.
InvalidFile == [kind |-> "invalid", data |-> EmptyMap]

ObjectFile(data) == [kind |-> "object", data |-> data]

\* JSON whose top level is not an object: a list, a string, a number, null.
NonObjectFile == [kind |-> "nonobject", data |-> EmptyMap]

\* The file just truncated by open(filepath, 'w'): no byte in it.
EmptyFile == [kind |-> "empty", data |-> EmptyMap]

(***************************************************************************)
(* AgentStorage                                                            *)
(***************************************************************************)
\* _load_agents: one Agent per (key, value) of the JSON object; {} when the
\* file is missing or is not JSON.  (No registry comes to exist when
\* _load_agents raises, see load_agents_exc; NoAgents stands for it.)
load_agents(f) ==
    IF f.kind = "object"
    THEN [agent_id \in DOMAIN f.data |-> Agent(agent_id, f.data[agent_id])]
    ELSE NoAgents

\* How _load_agents, and so AgentStorage(), ends: FileNotFoundError and
\* json.JSONDecodeError are caught; data.items() on JSON that is not an
\* object raises AttributeError, which no except clause names.
load_agents_exc(f) ==
    IF f.kind = "nonobject" THEN "AttributeError" ELSE "none"

\* A faulty save_agents: the except clause prints and does not re-raise.
save_agents_Swallow(ag, f, fault) ==
    CASE fault = "none" ->
           [file |-> ObjectFile([agent_id \in DOMAIN ag |-> to_dict(ag[agent_id])]),
            exc |-> "none", write |-> "ok"]
      [] fault = "open" -> [file |-> f, exc |-> "none", write |-> "failed"]
      [] fault = "write" -> [file |-> InvalidFile, exc |-> "none", write |-> "failed"]

\* _save_agents: open(filepath, 'w') and json.dump of {id: agent.to_dict()}.
\* fault = "open": open() raises, the file is as it was; fault = "write": the
\* file was truncated by open() and the dump raised; any exception is re-raised.
\* write tells whether the write went through ("ok") or not ("failed").
save_agents(ag, f, fault) ==
    CASE fault = "none" ->
           [file |-> ObjectFile([agent_id \in DOMAIN ag |-> to_dict(ag[agent_id])]),
            exc |-> "none", write |-> "ok"]
      [] fault = "open" -> [file |-> f, exc |-> "OSError", write |-> "failed"]
      [] fault = "write" -> [file |-> InvalidFile, exc |-> "OSError", write |-> "failed"]

\* get_agent: self.agents.get(agent_id, None)
get_agent(ag, agent_id) ==
    IF agent_id \in DOMAIN ag
    THEN [found |-> TRUE, agent |-> ag[agent_id]]
    ELSE [found |-> FALSE, agent |-> Agent("", Str(None))]

\* A faulty add_agent: an id that is already a key is refused.
add_agent_Strict(ag, f, agent_id, model_name, fault) ==
    IF agent_id \in DOMAIN ag
    THEN [agents |-> ag, file |-> f, exc |-> "ValueError", write |-> "none"]
    ELSE LET ag2 == [x \in DOMAIN ag \cup {agent_id} |->
                        IF x = agent_id THEN Agent(agent_id, Str(model_name)) ELSE ag[x]]
             s == save_agents(ag2, f, fault)
         IN [agents |-> ag2, file |-> s.file, exc |-> s.exc, write |-> s.write]

\* add_agent: self.agents[agent_id] = Agent(...); self._save_agents()
add_agent(ag, f, agent_id, model_name, fault) ==
    LET ag2 == [x \in DOMAIN ag \cup {agent_id} |->
                   IF x = agent_id THEN Agent(agent_id, Str(model_name)) ELSE ag[x]]
        s == save_agents(ag2, f, fault)
    IN [agents |-> ag2, file |-> s.file, exc |-> s.exc, write |-> s.write]

\* A faulty remove_agent: self.agents.pop(agent_id, None), then the save.
remove_agent_Pop(ag, f, agent_id, fault) ==
    LET ag2 == [x \in DOMAIN ag \ {agent_id} |-> ag[x]]
        s == save_agents(ag2, f, fault)
    IN [agents |-> ag2, file |-> s.file, exc |-> s.exc, write |-> s.write]

\* remove_agent
remove_agent(ag, f, agent_id, fault) ==
    IF agent_id \in DOMAIN ag
    THEN LET ag2 == [x \in DOMAIN ag \ {agent_id} |-> ag[x]]
             s == save_agents(ag2, f, fault)
         IN [agents |-> ag2, file |-> s.file, exc |-> s.exc, write |-> s.write]
    ELSE [agents |-> ag, file |-> f, exc |-> "KeyError", write |-> "none"]

\* `if model_name:` -- neither None nor the empty string.
Truthy(model_name) == model_name \notin {None, ""}

\* update_agent.  self.agents[agent_id]["model_name"] = model_name indexes an
\* Agent object, which defines no __setitem__: Python raises TypeError there,
\* before the assignment and before _save_agents.
update_agent(ag, f, agent_id, model_name, fault) ==
    IF agent_id \in DOMAIN ag
    THEN IF Truthy(model_name)
         THEN [agents |-> ag, file |-> f, exc |-> "TypeError", write |-> "none"]
         ELSE LET s == save_agents(ag, f, fault)
              IN [agents |-> ag, file |-> s.file, exc |-> s.exc, write |-> s.write]
    ELSE [agents |-> ag, file |-> f, exc |-> "KeyError", write |-> "none"]

(***************************************************************************)
(* Text.  A text is a sequence of tokens, each a fixed piece of a string;  *)
(* the string is their concatenation.  "<th" followed by "ink>" is the     *)
(* opening tag <think>, and nothing else in a text spells a tag or the     *)
(* closing phrase.                                                         *)
(***************************************************************************)
Phrase == "Thank you for reading."

\* '<think>' in text / the regex's opening tag at position i
IsOpenAt(t, i) == i + 1 <= Len(t) /\ t[i] = "<th" /\ t[i + 1] = "ink>"

ContainsThink(t) == \E i \in 1..Len(t) : IsOpenAt(t, i)

\* Positions of </think> at or after position from.
Closes(t, from) == {j \in from..Len(t) : t[j] = "</think>"}

SetMin(S) == CHOOSE x \in S : \A y \in S : x <= y

\* re.sub(r'<think>.*?</think>', '', text, flags=re.DOTALL): left to right,
\* each opening tag up to the nearest closing tag after it, one pass.
RECURSIVE strip_think(_)
strip_think(t) ==
    IF t = <<>> THEN <<>>
    ELSE IF IsOpenAt(t, 1) /\ Closes(t, 3) # {}
    THEN strip_think(SubSeq(t, SetMin(Closes(t, 3)) + 1, Len(t)))
    ELSE <<Head(t)>> \o strip_think(Tail(t))

\* re.sub(r'\s+', ' ', text): a run of whitespace becomes one space.
RECURSIVE collapse_ws(_)
collapse_ws(t) ==
    IF t = <<>> THEN <<>>
    ELSE IF Head(t) = " " /\ Len(t) > 1 /\ t[2] = " "
    THEN collapse_ws(Tail(t))
    ELSE <<Head(t)>> \o collapse_ws(Tail(t))

RECURSIVE lstrip(_)
lstrip(t) == IF t # <<>> /\ Head(t) = " " THEN lstrip(Tail(t)) ELSE t

RECURSIVE rstrip(_)
rstrip(t) ==
    IF t # <<>> /\ t[Len(t)] = " " THEN rstrip(SubSeq(t, 1, Len(t) - 1)) ELSE t

\* str.strip()
strip(t) == rstrip(lstrip(t))

\* text.endswith("Thank you for reading.")
EndsWithPhrase(t) == t # <<>> /\ t[Len(t)] = Phrase

\* A faulty basic_clean_text: the final .strip() is left out.
basic_clean_text_NoFinalStrip(text) ==
    LET a == strip_think(text)
        b == strip(collapse_ws(a))
    IN IF EndsWithPhrase(b) THEN SubSeq(b, 1, Len(b) - 1) ELSE b

\* basic_clean_text
basic_clean_text(text) ==
    LET a == strip_think(text)
        b == strip(collapse_ws(a))
        c == IF EndsWithPhrase(b) THEN SubSeq(b, 1, Len(b) - 1) ELSE b
    IN strip(c)

(***************************************************************************)
(* The prompt assembler (utils.py)                                         *)
(*                                                                         *)
(* A YAML value is None, a string, an int, a list or a mapping.  Strings   *)
(* are token sequences (" " is white space), as for the cleaner.  A list   *)
(* holds entries with key "", a mapping entries in file order.  A text is  *)
(* a sequence of lines, a line a kind, a key and the pieces of its text:   *)
(* a string piece is the string, any other piece v is Python's str(v).     *)
(***************************************************************************)
YEntry(key, val) == [key |-> key, val |-> val]

YNone == [k |-> "none", s |-> <<>>, items |-> <<>>]

YStr(s) == [k |-> "str", s |-> s, items |-> <<>>]

YInt(s) == [k |-> "int", s |-> s, items |-> <<>>]

YList(items) == [k |-> "list", s |-> <<>>, items |-> items]

YDict(items) == [k |-> "dict", s |-> <<>>, items |-> items]

\* Top-level keys of a persona file, and keys of the mappings below them.
TopKeys == <<"persona", "core-mannerisms">>

SubKeys == {"signature_phrases"}

\* None, "", " ", "a" and 0.
Scalars == {YNone, YStr(<<>>), YStr(<<" ">>), YStr(<<"a">>), YInt(<<"0">>)}

\* The values nested at most n deep: a list or a mapping holds no entry or one.
RECURSIVE Values(_)
Values(n) ==
    IF n = 0
    THEN Scalars
    ELSE LET V == Values(n - 1)
         IN Scalars \cup {YList(<<>>), YDict(<<>>)}
                    \cup {YList(<<YEntry("", v)>>) : v \in V}
                    \cup {YDict(<<YEntry(key, v)>>) : key \in SubKeys, v \in V}

\* Python truth: None, "", 0, [] and {} are false.
IsTruthy(v) ==
    CASE v.k = "none" -> FALSE
      [] v.k = "str" -> v.s # <<>>
      [] v.k = "int" -> v.s # <<"0">>
      [] OTHER -> v.items # <<>>

\* value is None or value == ""
IsNoneOrEmptyStr(v) == v.k = "none" \/ (v.k = "str" /\ v.s = <<>>)

\* key.upper().replace(" ", "_").replace("-", "_")
TagName(key) ==
    CASE key = "persona" -> "PERSONA"
      [] key = "core-mannerisms" -> "CORE_MANNERISMS"

\* sub_key.replace("_", " ").title()
DisplayKey(sub_key) ==
    CASE sub_key = "signature_phrases" -> "Signature Phrases"

Line(kind, key, text) == [kind |-> kind, key |-> key, text |-> text]

\* str(item).strip()
str_strip(v) == IF v.k = "str" THEN YStr(strip(v.s)) ELSE v

\* The items of a list that are true, in order.
TruthyItems(items) ==
    LET Keep(e) == IsTruthy(e.val)
    IN SelectSeq(items, Keep)

\* f"<{tag_name}>\n{content}\n</{tag_name}>"
Block(tag_name, content) ==
    <<Line("open", tag_name, <<>>)>> \o content \o <<Line("close", tag_name, <<>>)>>

\* "; ".join(pieces) is the empty string
JoinIsEmpty(pieces) ==
    \/ pieces = <<>>
    \/ Len(pieces) = 1 /\ pieces[1] = YStr(<<>>)

\* The lines _format_dict_section appends to content_parts for one
\* (sub_key, sub_value).
content_part(sub_key, sub_value) ==
    LET display_key == DisplayKey(sub_key)
        kept == TruthyItems(sub_value.items)
        items == [i \in 1..Len(kept) |-> str_strip(kept[i].val)]
        nested_items == [i \in 1..Len(kept) |-> Line("nested", kept[i].key, <<kept[i].val>>)]
    IN IF IsNoneOrEmptyStr(sub_value)
       THEN <<>>
       ELSE CASE sub_value.k = "str" ->
                   <<Line("kv", display_key, <<YStr(strip(sub_value.s))>>)>>
              [] sub_value.k = "list" ->
                   IF JoinIsEmpty(items) THEN <<>> ELSE <<Line("kv", display_key, items)>>
              [] sub_value.k = "dict" ->
                   IF nested_items = <<>>
                   THEN <<>>
                   ELSE <<Line("kv_head", display_key, <<>>)>> \o nested_items
              [] OTHER -> <<Line("kv", display_key, <<sub_value>>)>>

RECURSIVE content_parts(_)
content_parts(items) ==
    IF items = <<>>
    THEN <<>>
    ELSE content_part(Head(items).key, Head(items).val) \o content_parts(Tail(items))

\* _format_dict_section: "" (no line) when nothing was appended.
format_dict_section(tag_name, data) ==
    LET content == content_parts(data.items)
    IN IF content # <<>> THEN Block(tag_name, content) ELSE <<>>

\* _format_section: "" (no line) for a list without a true item and for a
\* value of no handled type.
format_section(key, value) ==
    LET tag_name == TagName(key)
        kept == TruthyItems(value.items)
        items == [i \in 1..Len(kept) |-> Line("bullet", "", <<str_strip(kept[i].val)>>)]
    IN CASE value.k = "str" -> Block(tag_name, <<Line("text", "", <<YStr(strip(value.s))>>)>>)
         [] value.k = "list" -> IF items # <<>> THEN Block(tag_name, items) ELSE <<>>
         [] value.k = "dict" -> format_dict_section(tag_name, value)
         [] value.k = "int" -> Block(tag_name, <<Line("text", "", <<value>>)>>)
         [] OTHER -> <<>>

\* The persona file: absent, not YAML, YAML whose top level is no mapping
\* (an empty file loads as None), or a mapping.
MissingPrompt == [kind |-> "missing", data |-> <<>>]

UnparsablePrompt == [kind |-> "unparsable", data |-> <<>>]

NonMappingPrompt == [kind |-> "nonmapping", data |-> <<>>]

MappingPrompt(data) == [kind |-> "mapping", data |-> data]

\* prompt_parts: the sections of the keys that are not skipped and format
\* to something, each after a blank line ("\n\n".join).
RECURSIVE prompt_parts(_)
prompt_parts(items) ==
    IF items = <<>>
    THEN <<>>
    ELSE LET key == Head(items).key
             value == Head(items).val
             formatted_section ==
                 IF IsNoneOrEmptyStr(value) THEN <<>> ELSE format_section(key, value)
             rest == prompt_parts(Tail(items))
         IN IF formatted_section = <<>>
            THEN rest
            ELSE IF rest = <<>>
            THEN formatted_section
            ELSE formatted_section \o <<Line("blank", "", <<>>)>> \o rest

Fixed(text) == Line("fixed", text, <<>>)

\* get_agent_system_prompt: the exception it raises, or the text it returns.
get_agent_system_prompt(f) ==
    CASE f.kind = "missing" -> [exc |-> "FileNotFoundError", text |-> <<>>]
      [] f.kind = "unparsable" -> [exc |-> "YAMLError", text |-> <<>>]
      [] f.kind = "nonmapping" -> [exc |-> "AttributeError", text |-> <<>>]
      [] f.kind = "mapping" ->
           LET parts == prompt_parts(f.data)
           IN [exc |-> "none",
               text |-> IF parts # <<>>
                        THEN <<Fixed("### SYSTEM INSTRUCTION FILE START ###"),
                               Fixed("command_config")>>
                             \o parts \o
                             <<Fixed("AND ONCE MORE, NO MARKDOWN"), Fixed("### SYSTEM INSTRUCTION FILE END ###")>>
                        ELSE <<Fixed("### SYSTEM INSTRUCTION FILE START ###"),
                               Fixed("No configuration provided."),
                               Fixed("### SYSTEM INSTRUCTION FILE END ###")>>]

\* Nothing rendered yet.
NoPrompt == [file |-> MissingPrompt, out |-> [exc |-> "none", text |-> <<>>],
             prev |-> [exc |-> "none", text |-> <<>>], calls |-> 0]

(***************************************************************************)
(* Two requests at once (app.py runs `def` handlers on a thread pool, and  *)
(* AgentStorage has no lock).  A thread is preempted between any two       *)
(* steps: the store or the delete, open(filepath, 'w'), the dict           *)
(* comprehension over self.agents, and the write of the dumped text when   *)
(* the file is closed, which lands at offset 0 of the thread's own handle. *)
(***************************************************************************)
Threads == {1, 2}

\* len(s)
StrLen(s) ==
    CASE s = "" -> 0
      [] s = "HONG" -> 4
      [] s = "DRAGUNOV" -> 8
      [] s = "gemini-2.5-flash" -> 16
      [] s = "zai-org/GLM-4.5" -> 15
      [] s = "llama-unlisted" -> 14
      [] s = "deepseek-ai/DeepSeek-R1:sambanova" -> 33

\* Characters json.dump(..., indent=4) writes for a value that starts at
\* the given indentation: null, a quoted string, or a to_dict dict.
RECURSIVE ValueSize(_, _)
ValueSize(v, indent) ==
    IF v.agent_ids = <<>>
    THEN IF v.base = None THEN 4 ELSE StrLen(v.base) + 2
    ELSE 42 + 3 * indent + StrLen(Head(v.agent_ids))
            + ValueSize(ModelNameField(v), indent + 4)

RECURSIVE EntriesSize(_, _)
EntriesSize(S, data) ==
    IF S = {}
    THEN 0
    ELSE LET agent_id == CHOOSE x \in S : TRUE
         IN 9 + StrLen(agent_id) + ValueSize(data[agent_id], 4)
              + EntriesSize(S \ {agent_id}, data)

\* Characters of the whole file json.dump(data, f, indent=4) writes.
JsonSize(data) ==
    IF DOMAIN data = {}
    THEN 2
    ELSE 2 + Cardinality(DOMAIN data) + EntriesSize(DOMAIN data, data)

\* {agent_id: agent.to_dict() for agent_id, agent in self.agents.items()}
dump_object(ag) == [agent_id \in DOMAIN ag |-> to_dict(ag[agent_id])]

\* A faulty write_over: the new text replaces the file whatever was in it.
write_over_Replace(f, snap) == {ObjectFile(snap)}

\* What the file may hold once the text of snap is written at offset 0 of a
\* file holding f: the text alone, or, f being longer, the text followed by
\* the rest of f, which is not JSON.  (The length of a file that is not
\* JSON and not empty is not known: either.)
write_over(f, snap) ==
    IF f.kind = "object"
    THEN IF JsonSize(f.data) > JsonSize(snap) THEN {InvalidFile} ELSE {ObjectFile(snap)}
    ELSE IF f.kind \in {"invalid", "nonobject"}
    THEN {InvalidFile, ObjectFile(snap)}
    ELSE {ObjectFile(snap)}

\* op, id, model: the call the thread makes; pc: where it is; exc: the
\* exception it raised; seen: self.agents when the comprehension began;
\* snap: the dict it built; under: the file its text was written over;
\* stamp: 1 for the first text written, 2 for the second.
NoThread ==
    [op |-> "none", id |-> "", model |-> None, pc |-> "ready", exc |-> "none",
     seen |-> NoAgents, snap |-> EmptyMap, under |-> MissingFile, stamp |-> 0]

NoThreads == [t \in Threads |-> NoThread]

(***************************************************************************)
(* State                                                                   *)
(***************************************************************************)
VARIABLES
    agents,    \* agent_storage.agents: agent id -> Agent
    file,      \* the content of agents.json
    client,    \* llm_service.client: "ok", or "None" when genai.Client raised
    hf_token,  \* llm_service.HF_TOKEN is set
    last,      \* the last call: what was called, with what, how it ended
    resp,      \* the last HTTP exchange: status and body
    turn,      \* what the last next_turn did with the dispatcher and synthesizer
    cl,        \* the text cleaner at work: its input, its text, passes made
    pr,        \* the prompt assembler at work: the persona file, what it returned
    th         \* the threads that call the registry at the same time

vars == <<agents, file, client, hf_token, last, resp, turn, cl, pr, th>>

NoBody == Agent("", Str(None))

\* An HTTP exchange.  status: the status the handler answered with, or
\* "unhandled" when an exception (exc) left the handler; body: the agent
\* record of the answer; text, audio: the text of a turn, and whether the
\* answer carries base64 audio.
Response(status, exc, body, text, audio) ==
    [status |-> status, exc |-> exc, body |-> body, text |-> text, audio |-> audio]

NoResp == Response("none", "none", NoBody, <<>>, FALSE)

\* llm_exc, llm_text: how generate_llm_response ended (the exception it
\* raised, or the string it returned); branches: the provider branches it
\* entered; prompt, api, tts: what the persona file, the provider and the
\* synthesizer did when asked ("unused": not asked); provider_calls, tts_calls:
\* requests sent to the provider, calls of generate_audio_base64; tts_text: the
\* text handed to the synthesizer.
NoTurn == [llm_exc |-> "none", llm_text |-> <<>>, branches |-> {},
           prompt |-> "unused", api |-> "unused", tts |-> "unused",
           provider_calls |-> 0, tts_calls |-> 0, tts_text |-> <<>>]

\* op: the call; id, model: its arguments; exc: the exception the registry
\* method raised ("none": it returned); found: the id was a key when the call
\* started (for GET: get_agent returned an Agent); write: what became of the
\* file write, "none" when the call attempted none.
Call(op, agent_id, model_name, exc, found, write) ==
    [op |-> op, id |-> agent_id, model |-> model_name, exc |-> exc, found |-> found,
     write |-> write]

Faults == {"none", "open", "write"}

\* The file a process may find at start: absent, not JSON, JSON that is no
\* object, or an object from ids to model names (the documented format),
\* null included.
InitFiles ==
    {MissingFile, InvalidFile, NonObjectFile} \cup
    {ObjectFile(d) : d \in UNION {[S -> {Str(m) : m \in ModelNames \cup {None}}] : S \in SUBSET Ids}}

Init ==
    /\ file \in InitFiles
    /\ agents = load_agents(file)
    /\ client \in {"ok", "None"}
    /\ hf_token \in BOOLEAN
    /\ last = Call("init", "", None, load_agents_exc(file), FALSE, "none")
    /\ resp = NoResp
    /\ turn = NoTurn
    /\ cl = [input |-> <<>>, text |-> <<>>, passes |-> 0]
    /\ pr = NoPrompt
    /\ th = NoThreads

\* The process is up: agent_storage = AgentStorage() at the import of app.py
\* did not raise.  No handler and no registry call runs otherwise.
Running == ~(last.op \in {"init", "load"} /\ last.exc # "none")

(***************************************************************************)
(* Registry calls                                                          *)
(***************************************************************************)
AddAgent(agent_id, model_name, fault) ==
    LET r == add_agent(agents, file, agent_id, model_name, fault)
    IN /\ Running
       /\ agents' = r.agents
       /\ file' = r.file
       /\ last' = Call("add_agent", agent_id, model_name, r.exc, agent_id \in DOMAIN agents, r.write)
       /\ resp' = NoResp
       /\ turn' = NoTurn
       /\ UNCHANGED <<client, hf_token, cl, pr, th>>

RemoveAgent(agent_id, fault) ==
    LET r == remove_agent(agents, file, agent_id, fault)
    IN /\ Running
       /\ agents' = r.agents
       /\ file' = r.file
       /\ last' = Call("remove_agent", agent_id, None, r.exc, agent_id \in DOMAIN agents, r.write)
       /\ resp' = NoResp
       /\ turn' = NoTurn
       /\ UNCHANGED <<client, hf_token, cl, pr, th>>

\* A new process on the same file: agent_storage = AgentStorage().
Restart ==
    /\ \A agent_id \in DOMAIN file.data : Len(file.data[agent_id].agent_ids) <= MaxNest
    /\ agents' = load_agents(file)
    /\ last' = Call("load", "", None, load_agents_exc(file), FALSE, "none")
    /\ resp' = NoResp
    /\ turn' = NoTurn
    /\ UNCHANGED <<file, client, hf_token, cl, pr, th>>

(***************************************************************************)
(* HTTP handlers over the registry (app.py)                                *)
(***************************************************************************)
\* AgentItem(**agent.to_dict()): pydantic accepts a str model_name only.
AgentItemValid(agent) == IsStr(agent.model_name)

\* GET /agent/{agent_id}
http_get_agent(ag, agent_id) ==
    LET g == get_agent(ag, agent_id)
    IN IF ~g.found
       THEN Response("404", "none", NoBody, <<>>, FALSE)
       ELSE IF ~AgentItemValid(g.agent)
       THEN Response("unhandled", "ValidationError", NoBody, <<>>, FALSE)
       ELSE Response("200", "none", g.agent, <<>>, FALSE)

\* PUT /agents/{agent_id}: KeyError -> 404, any other exception -> 500, else
\* the record get_agent returns after the update.
http_update_agent(r, agent_id) ==
    CASE r.exc = "KeyError" -> Response("404", "none", NoBody, <<>>, FALSE)
      [] r.exc \notin {"KeyError", "none"} -> Response("500", "none", NoBody, <<>>, FALSE)
      [] r.exc = "none" -> http_get_agent(r.agents, agent_id)

\* last.found is what agent_storage.get_agent returned (an Agent, or None).
HttpGetAgent(agent_id) ==
    /\ Running
    /\ last' = Call("GET /agent", agent_id, None, "none", get_agent(agents, agent_id).found, "none")
    /\ resp' = http_get_agent(agents, agent_id)
    /\ turn' = NoTurn
    /\ UNCHANGED <<agents, file, client, hf_token, cl, pr, th>>

\* last.exc is how agent_storage.update_agent ended, resp what the handler
\* made of it.
HttpUpdateAgent(agent_id, model_name, fault) ==
    LET r == update_agent(agents, file, agent_id, model_name, fault)
    IN /\ Running
       /\ agents' = r.agents
       /\ file' = r.file
       /\ last' = Call("PUT /agents", agent_id, model_name, r.exc, agent_id \in DOMAIN agents, r.write)
       /\ resp' = http_update_agent(r, agent_id)
       /\ turn' = NoTurn
       /\ UNCHANGED <<client, hf_token, cl, pr, th>>

\* The registry and its handlers.  They read neither client nor HF_TOKEN,
\* which are held at one value here and vary under SpecTurn.
InitRegistry ==
    /\ Init
    /\ client = "ok"
    /\ hf_token

Next ==
    \/ \E agent_id \in Ids, m \in ModelNames, fault \in Faults : AddAgent(agent_id, m, fault)
    \/ \E agent_id \in Ids, fault \in Faults : RemoveAgent(agent_id, fault)
    \/ \E agent_id \in Ids : HttpGetAgent(agent_id)
    \/ \E agent_id \in Ids, m \in ModelNames \cup {None, ""}, fault \in Faults :
          HttpUpdateAgent(agent_id, m, fault)
    \/ Restart

Spec == InitRegistry /\ [][Next]_vars

(***************************************************************************)
(* LLM dispatcher (llm_service.py)                                         *)
(***************************************************************************)
ErrNoClient == <<"ERROR:", " LLM API not available.">>

ErrGeminiClient == <<"ERROR:", " Gemini client not initialized.">>

ErrGemini == <<"ERROR:", " Gemini API error - ">>

ErrHFToken == <<"ERROR:", " HF_API_KEY not set.">>

ErrHF == <<"ERROR:", " HF Serverless API error - ">>

ErrNotConfigured == <<"ERROR:", " Model not configured for API routing.">>

\* What agent.get_system_prompt() may do: render the prompt, or raise because
\* the YAML file is absent, does not parse, or holds no mapping.
PromptOutcomes == {"ok", "FileNotFoundError", "YAMLError", "AttributeError"}

\* What the provider may do: answer with a text, with a text that opens with
\* a thinking block, with a text that itself begins "ERROR", or fail (network
\* error, HTTP error status, reply without the expected fields).
ApiOutcomes == {"text", "think", "error_text", "raise"}

TtsOutcomes == {"ok", "raise"}

ProviderText(api) ==
    CASE api = "text" -> <<"Hello">>
      [] api = "think" -> <<"<th", "ink>", "plan", "</think>", " ", "Hello">>
      [] api = "error_text" -> <<"ERROR", " is a word">>

\* llm_text.startswith("ERROR")
StartsWithERROR(t) == t # <<>> /\ Head(t) \in {"ERROR:", "ERROR"}

\* text.startswith("ERROR:")
StartsWithErrorColon(t) == t # <<>> /\ Head(t) = "ERROR:"

\* `model_name in LIST` for a list of strings: a dict is in none.
InList(model_name, list) == IsStr(model_name) /\ model_name.base \in list

Returned(text, branches, prompt, api, calls) ==
    [exc |-> "none", text |-> text, branches |-> branches, prompt |-> prompt, api |-> api,
     provider_calls |-> calls]

Raised(exc, branches, prompt, api, calls) ==
    [exc |-> exc, text |-> <<>>, branches |-> branches, prompt |-> prompt, api |-> api,
     provider_calls |-> calls]

\* _call_gemini_api
call_gemini_api(prompt, api) ==
    IF client = "None" THEN Returned(ErrGeminiClient, {"gemini"}, "unused", "unused", 0)
    ELSE IF prompt # "ok" THEN Raised(prompt, {"gemini"}, prompt, "unused", 0)
    ELSE IF api = "raise" THEN Raised("APIError", {"gemini"}, prompt, api, 1)
    ELSE Returned(ProviderText(api), {"gemini"}, prompt, api, 1)

\* _call_hf_api
call_hf_api(prompt, api) ==
    IF ~hf_token THEN Returned(ErrHFToken, {"hf"}, prompt, "unused", 0)
    ELSE IF api = "raise" THEN Raised("RequestException", {"hf"}, prompt, api, 1)
    ELSE Returned(ProviderText(api), {"hf"}, prompt, api, 1)

\* A faulty route: a name on neither list falls through to the router.
route_DefaultHF(model_name) ==
    IF InList(model_name, GEMINI_API_MODELS) THEN {"gemini"} ELSE {"hf"}

\* The if / elif / else on model_name: the provider branches entered.
route(model_name) ==
    IF InList(model_name, GEMINI_API_MODELS) THEN {"gemini"}
    ELSE IF InList(model_name, HF_SERVERLESS_MODELS) THEN {"hf"}
    ELSE {}

\* generate_llm_response.  g is what get_agent returned.  The hosted-API
\* branch calls _call_gemini_api inside try; the router branch reads the
\* persona prompt before its try and calls _call_hf_api inside it.
generate_llm_response(g, prompt, api) ==
    IF client = "None" THEN Returned(ErrNoClient, {}, "unused", "unused", 0)
    ELSE IF ~g.found THEN Raised("ValueError", {}, "unused", "unused", 0)
    ELSE IF g.agent.model_name = Str(None) THEN Raised("ValueError", {}, "unused", "unused", 0)
    ELSE IF "gemini" \in route(g.agent.model_name)
    THEN LET r == call_gemini_api(prompt, api)
         IN IF r.exc # "none"
            THEN Returned(ErrGemini, r.branches, r.prompt, r.api, r.provider_calls)
            ELSE r
    ELSE IF "hf" \in route(g.agent.model_name)
    THEN IF prompt # "ok" THEN Raised(prompt, {"hf"}, prompt, "unused", 0)
         ELSE LET r == call_hf_api(prompt, api)
              IN IF r.exc # "none"
                 THEN Returned(ErrHF, r.branches, r.prompt, r.api, r.provider_calls)
                 ELSE r
    ELSE Returned(ErrNotConfigured, {}, "unused", "unused", 0)

(***************************************************************************)
(* POST /next_turn (app.py)                                                *)
(***************************************************************************)
Turn(llm, tts, tts_calls, tts_text) ==
    [llm_exc |-> llm.exc, llm_text |-> llm.text, branches |-> llm.branches,
     prompt |-> llm.prompt, api |-> llm.api, tts |-> tts,
     provider_calls |-> llm.provider_calls, tts_calls |-> tts_calls, tts_text |-> tts_text]

\* next_turn: status "unhandled" is an exception that leaves the handler.
next_turn(g, prompt, api, tts) ==
    LET llm == generate_llm_response(g, prompt, api)
        cleaned == IF ContainsThink(llm.text) THEN basic_clean_text(llm.text) ELSE llm.text
    IN IF llm.exc # "none"
       THEN [resp |-> Response("unhandled", llm.exc, NoBody, <<>>, FALSE),
             turn |-> Turn(llm, "unused", 0, <<>>)]
       ELSE IF StartsWithERROR(llm.text)
       THEN [resp |-> Response("500", "none", NoBody, <<>>, FALSE),
             turn |-> Turn(llm, "unused", 0, <<>>)]
       ELSE IF tts = "raise"
       THEN [resp |-> Response("500", "none", NoBody, <<>>, FALSE),
             turn |-> Turn(llm, tts, 1, cleaned)]
       ELSE [resp |-> Response("200", "none", NoBody, llm.text, TRUE),
             turn |-> Turn(llm, tts, 1, cleaned)]

HttpNextTurn(agent_id, prompt, api, tts) ==
    LET g == get_agent(agents, agent_id)
        r == next_turn(g, prompt, api, tts)
    IN /\ Running
       /\ last' = Call("POST /next_turn", agent_id, None, "none", g.found, "none")
       /\ resp' = r.resp
       /\ turn' = r.turn
       /\ UNCHANGED <<agents, file, client, hf_token, cl, pr, th>>

\* The turn handler over every registry the calls below build, with the
\* file system behaving.
NextTurn ==
    \/ \E agent_id \in Ids, prompt \in PromptOutcomes, api \in ApiOutcomes, tts \in TtsOutcomes :
          HttpNextTurn(agent_id, prompt, api, tts)
    \/ \E agent_id \in Ids, m \in ModelNames : AddAgent(agent_id, m, "none")
    \/ \E agent_id \in Ids : RemoveAgent(agent_id, "none")
    \/ Restart

SpecTurn == Init /\ [][NextTurn]_vars

(***************************************************************************)
(* The text cleaner applied to a text, and again to its own result         *)
(***************************************************************************)
\* The pieces a text is typed from: the two halves of the opening tag, the
\* closing tag, whitespace, the closing phrase, a letter.
Tokens == {"<th", "ink>", "</think>", " ", Phrase, "a"}

TypeToken(tok) ==
    /\ cl.passes = 0
    /\ Len(cl.input) < MaxLen
    /\ cl' = [input |-> Append(cl.input, tok), text |-> Append(cl.input, tok), passes |-> 0]
    /\ UNCHANGED <<agents, file, client, hf_token, last, resp, turn, pr, th>>

CleanText ==
    /\ cl.passes < MaxPasses
    /\ cl' = [cl EXCEPT !.text = basic_clean_text(cl.text), !.passes = cl.passes + 1]
    /\ UNCHANGED <<agents, file, client, hf_token, last, resp, turn, pr, th>>

InitClean ==
    /\ InitRegistry
    /\ file = MissingFile

NextClean ==
    \/ \E tok \in Tokens : TypeToken(tok)
    \/ CleanText

SpecClean == InitClean /\ [][NextClean]_vars

(***************************************************************************)
(* The prompt assembler applied to a persona file, and again to the same   *)
(***************************************************************************)
\* What a persona file may hold under one top-level key: nothing, or a value.
Present(key) == {<<>>} \cup {<<YEntry(key, v)>> : v \in Values(MaxDepth)}

\* The mappings a persona file may hold, keys in file order.
Descriptors == {a \o b : a \in Present(TopKeys[1]), b \in Present(TopKeys[2])}

PromptFiles ==
    {MissingPrompt, UnparsablePrompt, NonMappingPrompt} \cup
    {MappingPrompt(d) : d \in Descriptors}

\* get_agent_system_prompt(file_path) on the file as it is.
Render ==
    /\ pr.calls < MaxRenders
    /\ pr' = [pr EXCEPT !.prev = pr.out,
                        !.out = get_agent_system_prompt(pr.file),
                        !.calls = pr.calls + 1]
    /\ UNCHANGED <<agents, file, client, hf_token, last, resp, turn, cl, th>>

InitPrompt ==
    /\ file = MissingFile
    /\ agents = load_agents(file)
    /\ client = "ok"
    /\ hf_token = TRUE
    /\ last = Call("init", "", None, load_agents_exc(file), FALSE, "none")
    /\ resp = NoResp
    /\ turn = NoTurn
    /\ cl = [input |-> <<>>, text |-> <<>>, passes |-> 0]
    /\ pr \in {[NoPrompt EXCEPT !.file = f] : f \in PromptFiles}
    /\ th = NoThreads

NextPrompt == Render

SpecPrompt == InitPrompt /\ [][NextPrompt]_vars

(***************************************************************************)
(* Two registry calls at once                                              *)
(***************************************************************************)
\* add_agent(agent_id, model_name) is called on thread t.
CallAddAgent(t, agent_id, model_name) ==
    /\ th[t].pc = "ready"
    /\ th' = [th EXCEPT ![t].op = "add_agent", ![t].id = agent_id,
                        ![t].model = model_name, ![t].pc = "store"]
    /\ UNCHANGED <<agents, file, client, hf_token, last, resp, turn, cl, pr>>

\* remove_agent(agent_id) is called on thread t.
CallRemoveAgent(t, agent_id) ==
    /\ th[t].pc = "ready"
    /\ th' = [th EXCEPT ![t].op = "remove_agent", ![t].id = agent_id, ![t].pc = "check"]
    /\ UNCHANGED <<agents, file, client, hf_token, last, resp, turn, cl, pr>>

\* self.agents[agent_id] = Agent(agent_id, model_name)
AddAgentStore(t) ==
    /\ th[t].pc = "store"
    /\ agents' = [x \in DOMAIN agents \cup {th[t].id} |->
                     IF x = th[t].id THEN Agent(th[t].id, Str(th[t].model)) ELSE agents[x]]
    /\ th' = [th EXCEPT ![t].pc = "open"]
    /\ UNCHANGED <<file, client, hf_token, last, resp, turn, cl, pr>>

\* if agent_id in self.agents: ... else: raise KeyError
RemoveAgentCheck(t) ==
    /\ th[t].pc = "check"
    /\ th' = IF th[t].id \in DOMAIN agents
             THEN [th EXCEPT ![t].pc = "del"]
             ELSE [th EXCEPT ![t].pc = "raised", ![t].exc = "KeyError"]
    /\ UNCHANGED <<agents, file, client, hf_token, last, resp, turn, cl, pr>>

\* del self.agents[agent_id]: KeyError when the key has gone since the test.
RemoveAgentDel(t) ==
    /\ th[t].pc = "del"
    /\ IF th[t].id \in DOMAIN agents
       THEN /\ agents' = [x \in DOMAIN agents \ {th[t].id} |-> agents[x]]
            /\ th' = [th EXCEPT ![t].pc = "open"]
       ELSE /\ agents' = agents
            /\ th' = [th EXCEPT ![t].pc = "raised", ![t].exc = "KeyError"]
    /\ UNCHANGED <<file, client, hf_token, last, resp, turn, cl, pr>>

\* _save_agents: open(self.filepath, 'w') truncates the file.
SaveOpen(t) ==
    /\ th[t].pc = "open"
    /\ file' = EmptyFile
    /\ th' = [th EXCEPT ![t].pc = "iter"]
    /\ UNCHANGED <<agents, client, hf_token, last, resp, turn, cl, pr>>

\* The comprehension starts to iterate self.agents.items().
SaveIterBegin(t) ==
    /\ th[t].pc = "iter"
    /\ th' = [th EXCEPT ![t].seen = agents, ![t].pc = "iter_end"]
    /\ UNCHANGED <<agents, file, client, hf_token, last, resp, turn, cl, pr>>

\* The comprehension ends: RuntimeError (dictionary changed size during
\* iteration, re-raised by _save_agents, the file left empty) when the dict
\* has another size than at the start; else the dict of to_dict records,
\* where a record replaced meanwhile is the old one or the new one.
SaveIterEnd(t) ==
    /\ th[t].pc = "iter_end"
    /\ IF Cardinality(DOMAIN agents) # Cardinality(DOMAIN th[t].seen)
       THEN th' = [th EXCEPT ![t].pc = "raised", ![t].exc = "RuntimeError"]
       ELSE \E N \in SUBSET DOMAIN agents :
               th' = [th EXCEPT ![t].pc = "flush",
                                ![t].snap = dump_object([x \in DOMAIN agents |->
                                               IF x \in N THEN agents[x] ELSE th[t].seen[x]])]
    /\ UNCHANGED <<agents, file, client, hf_token, last, resp, turn, cl, pr>>

\* json.dump writes the text and the with block closes the file; the call
\* returns.
SaveFlush(t) ==
    /\ th[t].pc = "flush"
    /\ file' \in write_over(file, th[t].snap)
    /\ th' = [th EXCEPT ![t].pc = "returned", ![t].under = file,
                        ![t].stamp = 1 + Cardinality({u \in Threads : th[u].stamp > 0})]
    /\ UNCHANGED <<agents, client, hf_token, last, resp, turn, cl, pr>>

\* The registry the two calls find: loaded from no file, or from a file in
\* the documented format.
RaceFiles ==
    {MissingFile} \cup
    {ObjectFile(d) : d \in UNION {[S -> {Str(m) : m \in GEMINI_API_MODELS}] : S \in SUBSET Ids}}

InitRace ==
    /\ file \in RaceFiles
    /\ agents = load_agents(file)
    /\ client = "ok"
    /\ hf_token = TRUE
    /\ last = Call("init", "", None, load_agents_exc(file), FALSE, "none")
    /\ resp = NoResp
    /\ turn = NoTurn
    /\ cl = [input |-> <<>>, text |-> <<>>, passes |-> 0]
    /\ pr = NoPrompt
    /\ th = NoThreads

NextRace ==
    \E t \in Threads :
        \/ \E agent_id \in Ids, m \in ModelNames : CallAddAgent(t, agent_id, m)
        \/ \E agent_id \in Ids : CallRemoveAgent(t, agent_id)
        \/ AddAgentStore(t)
        \/ RemoveAgentCheck(t)
        \/ RemoveAgentDel(t)
        \/ SaveOpen(t)
        \/ SaveIterBegin(t)
        \/ SaveIterEnd(t)
        \/ SaveFlush(t)

SpecRace == InitRace /\ [][NextRace]_vars

(***************************************************************************)
(* Properties of the registry and its handlers                             *)
(***************************************************************************)
\* The id -> model name mapping a registry holds.
ModelMap(ag) == [agent_id \in DOMAIN ag |-> ag[agent_id].model_name]

\* Every record but agent_id's is in ag2 as it was in ag1.
OthersKept(ag1, ag2, agent_id) ==
    \A o \in DOMAIN ag1 \ {agent_id} : o \in DOMAIN ag2 /\ ag2[o] = ag1[o]

Mutating == {"add_agent", "remove_agent", "PUT /agents"}

\* The file holds one to_dict record per agent of ag, under the agent's id,
\* with the agent's id and model name.
FileCorresponds(ag, f) ==
    /\ f.kind = "object"
    /\ DOMAIN f.data = DOMAIN ag
    /\ \A agent_id \in DOMAIN ag :
          /\ f.data[agent_id].agent_ids # <<>>
          /\ Head(f.data[agent_id].agent_ids) = ag[agent_id].agent_id
          /\ ModelNameField(f.data[agent_id]) = ag[agent_id].model_name

\* C1 (as claimed): an update of a registered id with a non-empty model name,
\* whose file write does not fail, returns normally; afterwards get(id) reports
\* the new model name, every other record is as before, and PUT /agents/{id}
\* answers 200 with the updated record.
C1_UpdateSetsModel ==
    [][\A agent_id \in Ids, m \in ModelNames :
         (/\ agent_id \in DOMAIN agents
          /\ last'.op = "PUT /agents" /\ last'.id = agent_id /\ last'.model = m
          /\ last'.write # "failed")
         => /\ last'.exc = "none"
            /\ get_agent(agents', agent_id).found
            /\ get_agent(agents', agent_id).agent.model_name = Str(m)
            /\ OthersKept(agents, agents', agent_id)
            /\ resp'.status = "200"
            /\ resp'.body = Agent(agent_id, Str(m))]_vars

\* C2 (as claimed): once a mutating call has saved the registry, a fresh
\* registry loaded from the file has the same id -> model name mapping.
C2_RoundTrip ==
    (last.op \in Mutating /\ last.write = "ok")
    => ModelMap(load_agents(file)) = ModelMap(agents)

\* C3: for an id that is not a key, get reports missing, update and remove
\* raise KeyError, registry and file stay as they were, and the GET and PUT
\* handlers answer 404.
C3_AbsentIdNotFound ==
    [][\A agent_id \in Ids :
         (agent_id \notin DOMAIN agents /\ last'.id = agent_id)
         => /\ last'.op = "GET /agent"
               => ~last'.found /\ resp'.status = "404" /\ agents' = agents /\ file' = file
            /\ last'.op = "PUT /agents"
               => last'.exc = "KeyError" /\ resp'.status = "404"
                  /\ agents' = agents /\ file' = file
            /\ last'.op = "remove_agent"
               => last'.exc = "KeyError" /\ agents' = agents /\ file' = file]_vars

\* A remove of an absent id from a registry that holds another agent ended
\* in KeyError.
C3_Witness ==
    /\ last.op = "remove_agent"
    /\ ~last.found
    /\ last.exc = "KeyError"
    /\ DOMAIN agents # {}
    /\ last.id \notin DOMAIN agents

\* C4 (as claimed): add_agent with an id that is already a key reports a
\* failure and leaves the existing record unchanged (file writes that fail
\* set aside).
C4_CreateFailsIfExists ==
    [][\A agent_id \in Ids :
         (/\ agent_id \in DOMAIN agents
          /\ last'.op = "add_agent" /\ last'.id = agent_id
          /\ last'.write # "failed")
         => /\ last'.exc # "none"
            /\ agent_id \in DOMAIN agents'
            /\ agents'[agent_id] = agents[agent_id]]_vars

\* C4 (amended): add_agent with an id that is already a key is not refused:
\* it replaces the record by Agent(id, model), keeps the key set and every
\* other record, and raises only when the file write fails.
C4_AddReplaces ==
    [][\A agent_id \in Ids :
         (agent_id \in DOMAIN agents /\ last'.op = "add_agent" /\ last'.id = agent_id)
         => /\ DOMAIN agents' = DOMAIN agents
            /\ agents'[agent_id] = Agent(agent_id, Str(last'.model))
            /\ OthersKept(agents, agents', agent_id)
            /\ last'.exc # "none" <=> last'.write = "failed"]_vars

\* add_agent on an existing id returned normally and the registry holds the
\* new model name under it.
C4_Witness ==
    /\ last.op = "add_agent"
    /\ last.found
    /\ last.exc = "none"
    /\ agents[last.id] = Agent(last.id, Str(last.model))
    /\ FileCorresponds(agents, file)

\* C10: a mutating registry call that returned normally wrote the file, and
\* the file corresponds to the registry; a call whose file write failed
\* raised.
C10_MutationsPersist ==
    /\ (last.op \in Mutating /\ last.exc = "none")
          => last.write = "ok" /\ FileCorresponds(agents, file)
    /\ last.write = "failed" => last.exc # "none"

\* A remove returned normally and left a non-empty registry, which the file
\* corresponds to.
C10_Witness ==
    /\ last.op = "remove_agent"
    /\ last.exc = "none"
    /\ last.write = "ok"
    /\ DOMAIN agents # {}
    /\ FileCorresponds(agents, file)

(***************************************************************************)
(* Properties of the dispatcher and of POST /next_turn                     *)
(***************************************************************************)
IsTurn == last.op = "POST /next_turn"

\* The model name of the agent the last call named (a key of the registry).
SpeakerModel == agents[last.id].model_name

Listed(model_name) ==
    InList(model_name, GEMINI_API_MODELS) \/ InList(model_name, HF_SERVERLESS_MODELS)

\* C5 (as claimed): next_turn for a speaker that is not in the registry ends
\* in an error response made by the handler, no exception leaves next_turn,
\* and neither the provider nor the synthesizer is called.
C5_UnknownSpeakerErrorResponse ==
    (IsTurn /\ ~last.found)
    => /\ resp.status \in {"400", "404", "500"}
       /\ resp.exc = "none"
       /\ turn.provider_calls = 0
       /\ turn.tts_calls = 0

\* C6 (as claimed): a model name on one of the two lists takes exactly one
\* provider branch, the one of its list; any other model name gets the "not
\* configured" ERROR string, and nothing is raised.
C6_RoutingTotal ==
    (IsTurn /\ last.found)
    => /\ InList(SpeakerModel, GEMINI_API_MODELS) => turn.branches = {"gemini"}
       /\ InList(SpeakerModel, HF_SERVERLESS_MODELS) => turn.branches = {"hf"}
       /\ ~Listed(SpeakerModel)
            => turn.branches = {} /\ turn.llm_exc = "none" /\ turn.llm_text = ErrNotConfigured

\* C6 (amended): with the hosted-API client initialised, a model name on one
\* of the two lists takes exactly the branch of its list, a model_name of
\* None raises ValueError, and any other value gets the "not configured"
\* ERROR string without a raise or a branch; with client None every call
\* returns "ERROR: LLM API not available." and takes no branch.
C6_RoutingWhenClientReady ==
    (IsTurn /\ last.found)
    => /\ client = "ok"
            => /\ InList(SpeakerModel, GEMINI_API_MODELS) => turn.branches = {"gemini"}
               /\ InList(SpeakerModel, HF_SERVERLESS_MODELS) => turn.branches = {"hf"}
               /\ SpeakerModel = Str(None)
                    => turn.branches = {} /\ turn.llm_exc = "ValueError"
               /\ (~Listed(SpeakerModel) /\ SpeakerModel # Str(None))
                    => /\ turn.branches = {}
                       /\ turn.llm_exc = "none"
                       /\ turn.llm_text = ErrNotConfigured
       /\ client = "None"
            => turn.branches = {} /\ turn.llm_exc = "none" /\ turn.llm_text = ErrNoClient

\* A turn for an agent whose model name is on neither list, with the client
\* initialised, got the "not configured" string.
C6_Witness ==
    /\ IsTurn
    /\ last.found
    /\ client = "ok"
    /\ IsStr(SpeakerModel)
    /\ ~Listed(SpeakerModel)
    /\ turn.llm_text = ErrNotConfigured

\* Something failed while a provider branch served the call.
BranchFailure ==
    /\ turn.branches # {}
    /\ turn.prompt \in PromptOutcomes \ {"ok"} \/ turn.api = "raise"

\* C7 (as claimed): for a registered agent with a configured model, a failure
\* in either provider branch makes generate_llm_response return a string that
\* starts with "ERROR:", and no exception leaves it.
C7_FailuresBecomeErrorStrings ==
    (IsTurn /\ last.found /\ Listed(SpeakerModel) /\ BranchFailure)
    => turn.llm_exc = "none" /\ StartsWithErrorColon(turn.llm_text)

\* C8 (as claimed): a turn for a registered agent answers 500 when the
\* dispatcher returned an ERROR-prefixed string or the synthesizer raised, and
\* otherwise answers with the generated text and audio; the synthesizer is
\* called at most once, and only after a dispatcher text that is no error.
C8_TurnOutcome ==
    (IsTurn /\ last.found)
    => /\ IF (turn.llm_exc = "none" /\ StartsWithERROR(turn.llm_text)) \/ turn.tts = "raise"
          THEN resp.status = "500"
          ELSE resp.status = "200" /\ resp.text = turn.llm_text /\ resp.audio
       /\ turn.tts_calls <= 1
       /\ turn.tts_calls = 1 => turn.llm_exc = "none" /\ ~StartsWithERROR(turn.llm_text)

(***************************************************************************)
(* Properties of the text cleaner                                          *)
(***************************************************************************)
\* An opening tag with a closing tag somewhere after it.
HasThinkBlock(t) == \E i \in 1..Len(t) : IsOpenAt(t, i) /\ Closes(t, i + 2) # {}

\* The cleaner is applied to a text it has produced.
SecondPass == cl.passes >= 1 /\ cl'.passes = cl.passes + 1

\* C9 (as claimed): cleaning a cleaned text returns it unchanged.
C9_Idempotent == [][SecondPass => cl'.text = cl.text]_vars

\* C9 (amended): cleaning a cleaned text returns it unchanged when the
\* cleaned text holds no <think>...</think> block and does not end with the
\* closing phrase.
C9_IdempotentWhenSettled ==
    [][(SecondPass /\ ~HasThinkBlock(cl.text) /\ ~EndsWithPhrase(cl.text))
         => cl'.text = cl.text]_vars

\* A text with a thinking block and the closing phrase at its end was
\* cleaned twice, the first pass leaving a text with neither.
C9_Witness ==
    /\ cl.passes = 2
    /\ HasThinkBlock(cl.input)
    /\ EndsWithPhrase(cl.input)
    /\ cl.text # <<>>
    /\ cl.text = basic_clean_text(cl.input)

(***************************************************************************)
(* Loading the registry                                                    *)
(***************************************************************************)
\* C11: a load (AgentStorage() in a new process) from a file that is absent,
\* is not JSON, or is JSON whose top level is not an object, does not raise
\* and yields the empty registry.
C11_LoadDegradesToEmpty ==
    (last.op = "load" /\ file.kind # "object")
    => (last.exc = "none" /\ agents = NoAgents)

(***************************************************************************)
(* Identity of the agents                                                  *)
(***************************************************************************)
\* Every agent is stored under its own agent_id.
AgentIdIsKey(ag) == \A agent_id \in DOMAIN ag : ag[agent_id].agent_id = agent_id

\* No two entries have the same agent_id.
NoSharedId(ag) ==
    Cardinality({ag[agent_id].agent_id : agent_id \in DOMAIN ag}) = Cardinality(DOMAIN ag)

\* C13: in every registry state the load, add, update and remove calls lead
\* to, each agent's agent_id is the key it is stored under, no two entries
\* have the same agent_id, and no call changes the agent_id of an entry that
\* stays.
C13_IdIsKeyAndStable ==
    /\ [](AgentIdIsKey(agents) /\ NoSharedId(agents))
    /\ [][\A agent_id \in DOMAIN agents \cap DOMAIN agents' :
             agents'[agent_id].agent_id = agents[agent_id].agent_id]_vars

\* Two agents, loaded by a new process from a file that _save_agents wrote.
C13_Witness ==
    /\ last.op = "load"
    /\ DOMAIN agents = Ids
    /\ \A agent_id \in Ids : agents[agent_id].model_name.agent_ids # <<>>
    /\ AgentIdIsKey(agents)

(***************************************************************************)
(* Update without a model name                                             *)
(***************************************************************************)
\* C15: update_agent(id) with no new model name (None or "") on an id that
\* is a key returns normally, leaves the id -> model name mapping in memory
\* as it was, and leaves the mapping a new process would load from the file
\* as it was before the call (a call whose file write fails set aside).
C15_UpdateWithoutModelIsNoOp ==
    [][(/\ last'.op = "PUT /agents"
        /\ last'.found
        /\ ~Truthy(last'.model)
        /\ last'.write # "failed")
       => /\ last'.exc = "none"
          /\ ModelMap(agents') = ModelMap(agents)
          /\ ModelMap(load_agents(file')) = ModelMap(load_agents(file))]_vars

(***************************************************************************)
(* Two registry calls at once                                              *)
(***************************************************************************)
\* Both calls returned, neither raised.
BothReturned == \A t \in Threads : th[t].pc = "returned"

\* The thread whose text was written last.
LastWriter == CHOOSE t \in Threads : th[t].stamp = Cardinality(Threads)

\* C14: of two mutating calls that run at the same time without a lock and
\* both return normally, the text written last decides what the file holds:
\* the file is the dict the last writer built, whatever the other call did
\* to the registry after that dict was built, or, when that text is shorter
\* than the one it was written over, a file that is not JSON.  (That a call's
\* effect can so be missing from the file is the state C14_Witness.)
C14_LastWriteWins ==
    BothReturned =>
      LET w == LastWriter
          torn == /\ th[w].under.kind = "object"
                  /\ JsonSize(th[w].under.data) > JsonSize(th[w].snap)
      IN /\ torn => file = InvalidFile
         /\ ~torn => file = ObjectFile(th[w].snap)
         /\ file.kind = "object" /\ th[w].snap = dump_object(agents)
               => FileCorresponds(agents, file)

\* add_agent(x) and remove_agent(y) of another id both returned, the
\* registry in memory has x and has not y, and the file, an object, still
\* has y: the removal is missing from it.
C14_Witness ==
    /\ BothReturned
    /\ \E t, u \in Threads :
          /\ th[t].op = "add_agent"
          /\ th[u].op = "remove_agent"
          /\ th[t].id # th[u].id
          /\ th[t].id \in DOMAIN agents
          /\ th[u].id \notin DOMAIN agents
          /\ file.kind = "object"
          /\ th[t].id \in DOMAIN file.data
          /\ th[u].id \in DOMAIN file.data

(***************************************************************************)
(* Properties of the prompt assembler                                      *)
(***************************************************************************)
\* None, "", [] or {}.
BasicEmpty(v) ==
    \/ v.k = "none"
    \/ v.k = "str" /\ v.s = <<>>
    \/ v.k \in {"list", "dict"} /\ v.items = <<>>

\* Absent or empty: None, "", [], {}, or a list or mapping that holds
\* nothing but None, "", [] and {}.
Empty(v) ==
    \/ BasicEmpty(v)
    \/ v.k \in {"list", "dict"} /\ \A i \in 1..Len(v.items) : BasicEmpty(v.items[i].val)

\* A mapping was rendered.
Rendered == pr.calls >= 1 /\ pr.file.kind = "mapping"

\* The text has a tagged block for the top-level key.
HasBlock(text, key) ==
    \E i \in 1..Len(text) : text[i].kind = "open" /\ text[i].key = TagName(key)

\* The lines inside the tagged block of the top-level key.
Section(text, key) ==
    IF HasBlock(text, key)
    THEN LET o == CHOOSE i \in 1..Len(text) : text[i] = Line("open", TagName(key), <<>>)
             c == CHOOSE i \in 1..Len(text) : text[i] = Line("close", TagName(key), <<>>)
         IN SubSeq(text, o + 1, c - 1)
    ELSE <<>>

\* The block of key has a "Key: value" line, or a "Key:" heading, for sub_key.
HasKeyLine(text, key, sub_key) ==
    \E i \in 1..Len(Section(text, key)) :
        /\ Section(text, key)[i].kind \in {"kv", "kv_head"}
        /\ Section(text, key)[i].key = DisplayKey(sub_key)

\* The block of key has a "  k: v" line for the key k of a mapping nested in it.
HasNestedLine(text, key, k) ==
    \E i \in 1..Len(Section(text, key)) :
        /\ Section(text, key)[i].kind = "nested"
        /\ Section(text, key)[i].key = k

\* C12: rendering the same persona file twice gives the same text, and no
\* key with an absent or empty value, be it a top-level key, a key of a
\* mapping under it, or a key of a mapping nested in that one, has a tagged
\* block or a "Key: value" line in the text.
C12_EmptyNeverRendered ==
    Rendered =>
      /\ pr.calls >= 2 => pr.out = pr.prev
      /\ \A i \in 1..Len(pr.file.data) :
            LET e == pr.file.data[i]
            IN /\ Empty(e.val) => ~HasBlock(pr.out.text, e.key)
               /\ e.val.k = "dict" =>
                     \A j \in 1..Len(e.val.items) :
                        LET se == e.val.items[j]
                        IN /\ Empty(se.val) => ~HasKeyLine(pr.out.text, e.key, se.key)
                           /\ se.val.k = "dict" =>
                                 \A n \in 1..Len(se.val.items) :
                                    LET ne == se.val.items[n]
                                    IN Empty(ne.val) =>
                                          ~HasNestedLine(pr.out.text, e.key, ne.key)

====
